---- MODULE Spec2Model ----
(***************************************************************************)
(* Model of summer_internships_scraper: the LinkedInScraper fetcher        *)
(* (fetch_jobs, _format_keywords, _parse_job_card, _filter_cards), the     *)
(* JobOffer record with its identity hash, the deduplicating JobRepository *)
(* and the orchestration in main().                                        *)
(*                                                                         *)
(* Python text is a TLA+ string; a Python value that may be None or of     *)
(* another type is a record [type, val] whose val is the value's str()     *)
(* form.  A markup element is a record [found, text, attr].                *)
(***************************************************************************)
EXTENDS Integers, Sequences, FiniteSets, TLC

VARIABLES mainPc, LOCATIONS, task, network, results, repo, idx,
          total_new_jobs, calls, all_jobs, page, probe

vars == <<mainPc, LOCATIONS, task, network, results, repo, idx,
          total_new_jobs, calls, all_jobs, page, probe>>

-----------------------------------------------------------------------------
(* Bounds of the model *)

\* number of configured locations in a run of main
NumLocations == 2

\* largest number of posting cards in one response
MaxCards == 2

\* largest number of records in one add_jobs call made directly on a repository
MaxBatch == 2

\* largest number of add_jobs calls made directly on a repository
MaxCalls == 2

-----------------------------------------------------------------------------
(* Python values *)

PyStr(s) == [type |-> "str", val |-> s]

PyNone == [type |-> "NoneType", val |-> "None"]

PyInt(s) == [type |-> "int", val |-> s]

\* isinstance(x, str)
IsStr(x) == x.type = "str"

\* str(x), as an f-string formats a field
Format(x) == x.val

-----------------------------------------------------------------------------
(* Text operations *)

UpperCase == <<"A", "B", "C", "D", "E", "F", "G", "H", "I", "J", "K", "L", "M",
               "N", "O", "P", "Q", "R", "S", "T", "U", "V", "W", "X", "Y", "Z">>

LowerCase == <<"a", "b", "c", "d", "e", "f", "g", "h", "i", "j", "k", "l", "m",
               "n", "o", "p", "q", "r", "s", "t", "u", "v", "w", "x", "y", "z">>

LowerChar(c) ==
    IF \E k \in 1..Len(UpperCase) : UpperCase[k] = c
    THEN LowerCase[CHOOSE k \in 1..Len(UpperCase) : UpperCase[k] = c]
    ELSE c

RECURSIVE Lower(_)
\* str.lower()
Lower(s) ==
    IF Len(s) = 0 THEN ""
    ELSE LowerChar(SubSeq(s, 1, 1)) \o Lower(SubSeq(s, 2, Len(s)))

\* the characters str.strip() removes
Whitespace == {" ", "\t", "\n", "\r"}

RECURSIVE LStrip(_)
LStrip(s) ==
    IF Len(s) > 0 /\ SubSeq(s, 1, 1) \in Whitespace
    THEN LStrip(SubSeq(s, 2, Len(s)))
    ELSE s

RECURSIVE RStrip(_)
RStrip(s) ==
    IF Len(s) > 0 /\ SubSeq(s, Len(s), Len(s)) \in Whitespace
    THEN RStrip(SubSeq(s, 1, Len(s) - 1))
    ELSE s

\* str.strip()
Strip(s) == RStrip(LStrip(s))

\* the Python test  t in s  on text
Contains(s, t) ==
    \E i \in 1..(Len(s) - Len(t) + 1) : SubSeq(s, i, i + Len(t) - 1) = t

RECURSIVE Replace(_, _, _)
\* str.replace(old, new) for a one-character old
Replace(s, old, new) ==
    IF Len(s) = 0 THEN ""
    ELSE (IF SubSeq(s, 1, 1) = old THEN new ELSE SubSeq(s, 1, 1))
         \o Replace(SubSeq(s, 2, Len(s)), old, new)

-----------------------------------------------------------------------------
(* Markup elements and posting cards *)

NoTag == [found |-> FALSE, text |-> "", attr |-> PyNone]

Tag(text) == [found |-> TRUE, text |-> text, attr |-> PyNone]

TagAttr(a) == [found |-> TRUE, text |-> "", attr |-> a]

\* one div.job-search-card: the elements card.find looks up
Card(h3, h4, span, a, time) ==
    [h3 |-> h3, h4 |-> h4, span |-> span, a |-> a, time |-> time]

-----------------------------------------------------------------------------
(* JobOffer *)

JobOffer(title, company_name, location, posted_date, url, description) ==
    [title |-> title, company_name |-> company_name, location |-> location,
     posted_date |-> posted_date, url |-> url, description |-> description]

\* hashlib.md5(content).hexdigest(): a digest of the content, taken to be
\* free of collisions
md5(content) == <<"md5", content>>

get_hash_with_url(self) ==
    md5(Format(self.company_name) \o Format(self.title) \o Format(self.location)
        \o Format(self.url))

get_hash(self) ==
    md5(Format(self.company_name) \o Format(self.title) \o Format(self.location))

-----------------------------------------------------------------------------
(* LinkedInScraper *)

HOST == "https://host/jobs/search"

\* _format_keywords
_format_keywords(keywords) == Replace(keywords, " ", "%20")

included_keywords ==
    {"backend", "cloud", "devops", "engineering", "platform",
     "site reliability", "software", "developer", "engineer"}

excluded_keywords ==
    {"marketing", "sales", "business", "finance", "accounting", "hr",
     "human resources", "recruiter", "customer", "support", "service",
     "content", "design", "product manager", "project manager", "operations"}

pos == {"intern", "apprentice", "internship"}

_filter_cards_keep_untitled(card) ==
    IF ~card.h3.found THEN TRUE
    ELSE LET title_text == Lower(Strip(card.h3.text)) IN
         IF (\E p \in pos : Contains(title_text, p))
            /\ (\E keyword \in included_keywords : Contains(title_text, keyword))
         THEN (IF \E role \in excluded_keywords : Contains(title_text, role)
               THEN FALSE
               ELSE TRUE)
         ELSE FALSE

_filter_cards_no_exclusion(card) ==
    IF ~card.h3.found THEN FALSE
    ELSE LET title_text == Lower(Strip(card.h3.text)) IN
         IF (\E p \in pos : Contains(title_text, p))
            /\ (\E keyword \in included_keywords : Contains(title_text, keyword))
         THEN TRUE
         ELSE FALSE

\* _filter_cards: TRUE when the card is kept
_filter_cards(card) ==
    IF ~card.h3.found THEN FALSE
    ELSE LET title_text == Lower(Strip(card.h3.text)) IN
         IF (\E p \in pos : Contains(title_text, p))
            /\ (\E keyword \in included_keywords : Contains(title_text, keyword))
         THEN (IF \E role \in excluded_keywords : Contains(title_text, role)
               THEN FALSE
               ELSE TRUE)
         ELSE FALSE

NoJob == JobOffer(PyNone, PyNone, PyNone, PyNone, PyNone, PyNone)

\* _parse_job_card: .text of an element that find did not return raises
\* AttributeError; the link and the time element are optional
_parse_job_card(card) ==
    IF ~card.h3.found \/ ~card.h4.found \/ ~card.span.found
    THEN [raised |-> "AttributeError", job |-> NoJob]
    ELSE [raised |-> "",
          job |-> JobOffer(PyStr(Strip(card.h3.text)),
                           PyStr(Strip(card.h4.text)),
                           PyStr(Strip(card.span.text)),
                           IF card.time.found THEN card.time.attr ELSE PyNone,
                           IF card.a.found THEN card.a.attr ELSE PyNone,
                           PyNone)]

RECURSIVE CardLoopSkipBroken(_, _, _)
CardLoopSkipBroken(cards, jobs, filtered) ==
    IF cards = <<>>
    THEN [raised |-> "", cause |-> "", jobs |-> jobs, filtered |-> filtered]
    ELSE IF ~_filter_cards(Head(cards))
         THEN CardLoopSkipBroken(Tail(cards), jobs, filtered + 1)
         ELSE LET parsed == _parse_job_card(Head(cards)) IN
              IF parsed.raised # ""
              THEN CardLoopSkipBroken(Tail(cards), jobs, filtered)
              ELSE CardLoopSkipBroken(Tail(cards), Append(jobs, parsed.job), filtered)

RECURSIVE CardLoop(_, _, _)
\* the loop of fetch_jobs over the cards: a rejected card is counted and
\* skipped, an accepted one is parsed, and the first parser failure ends
\* the call with ParsingError raised from the cause
CardLoop(cards, jobs, filtered) ==
    IF cards = <<>>
    THEN [raised |-> "", cause |-> "", jobs |-> jobs, filtered |-> filtered]
    ELSE IF ~_filter_cards(Head(cards))
         THEN CardLoop(Tail(cards), jobs, filtered + 1)
         ELSE LET parsed == _parse_job_card(Head(cards)) IN
              IF parsed.raised # ""
              THEN [raised |-> "ParsingError", cause |-> parsed.raised,
                    jobs |-> <<>>, filtered |-> filtered]
              ELSE CardLoop(Tail(cards), Append(jobs, parsed.job), filtered)

-----------------------------------------------------------------------------
(* JobRepository: add_jobs and get_all_jobs, a mapping from identity hash  *)
(* to the first record seen with that hash                                 *)

EmptyRepo == [h \in {} |-> NoJob]

RECURSIVE add_jobs_overwrite(_, _, _)
add_jobs_overwrite(store, jobs, new_count) ==
    IF jobs = <<>>
    THEN [store |-> store, new_count |-> new_count,
          total_count |-> Cardinality(DOMAIN store)]
    ELSE add_jobs_overwrite(
             [h \in DOMAIN store \cup {get_hash(Head(jobs))} |->
                 IF h = get_hash(Head(jobs)) THEN Head(jobs) ELSE store[h]],
             Tail(jobs), new_count + 1)

RECURSIVE add_jobs(_, _, _)
\* add_jobs(jobs): insert each record whose hash is not stored yet;
\* returns (new_count, total_count_after)
add_jobs(store, jobs, new_count) ==
    IF jobs = <<>>
    THEN [store |-> store, new_count |-> new_count,
          total_count |-> Cardinality(DOMAIN store)]
    ELSE IF get_hash(Head(jobs)) \in DOMAIN store
         THEN add_jobs(store, Tail(jobs), new_count)
         ELSE add_jobs(
                  [h \in DOMAIN store \cup {get_hash(Head(jobs))} |->
                      IF h = get_hash(Head(jobs)) THEN Head(jobs) ELSE store[h]],
                  Tail(jobs), new_count + 1)

\* get_all_jobs(): the stored records, in no particular order
get_all_jobs(store) == {store[h] : h \in DOMAIN store}

\* one entry of the record of add_jobs calls: the list passed, what the call
\* returned and the store it left; at is the position in results (0 for a
\* call made directly on a repository)
Call(at, jobs, ret) ==
    [at |-> at, arg |-> jobs, new_count |-> ret.new_count,
     total_count |-> ret.total_count, stored |-> ret.store]

-----------------------------------------------------------------------------
(* The inputs *)

\* sequences over S of length at most n
SeqUpTo(S, n) == UNION {[1..k -> S] : k \in 0..n}

Keywords == "Summer 2026"

Countries == <<"Portugal", "France", "Spain", "Italy", "Germany">>

GeoIds == <<"100364837", "105015875", "105646813", "103350119", "101282230">>

\* the response statuses a request is answered with
Statuses == {200, 204, 404}

cardA ==
    Card(Tag("\n Software Engineer Intern \n"), Tag("Acme"), Tag("Lisbon "),
         TagAttr(PyStr("https://host/jobs/view/1")), TagAttr(PyStr("2026-01-10")))

cardB ==
    Card(Tag("DevOps Apprentice"), Tag("Acme"), Tag("Porto"), NoTag, NoTag)

cardRejected ==
    Card(Tag("Marketing Intern"), Tag("Acme"), Tag("Lisbon"), NoTag, NoTag)

cardNoTitle ==
    Card(NoTag, Tag("Acme"), Tag("Lisbon"),
         TagAttr(PyStr("https://host/jobs/view/3")), NoTag)

cardNoCompany ==
    Card(Tag("Cloud Engineering Internship"), NoTag, Tag("Lisbon"), NoTag, NoTag)

cardNoLocation ==
    Card(Tag("Backend Developer Intern"), Tag("Acme"), NoTag, NoTag, NoTag)

\* the posting cards a response is made of
Cards == {cardA, cardB, cardRejected, cardNoTitle, cardNoCompany, cardNoLocation}

\* the response bodies: the cards soup.find_all returns
Bodies == SeqUpTo(Cards, MaxCards)

\* what the loop of fetch_jobs makes of each body (jobs = [], filtered = 0
\* at its start), tabulated once (@@ makes TLC build the table)
Processed == [cards \in Bodies |-> CardLoop(cards, <<>>, 0)] @@ <<>>

-----------------------------------------------------------------------------
(* fetch_jobs: one coroutine per call.  pc is "none" before the coroutine   *)
(* exists, "created" until it first runs, "requesting" while it awaits      *)
(* session.get, "reading" while it awaits response.text, then "returned",   *)
(* "raised" or "cancelled".                                                 *)

NoTask ==
    [pc |-> "none", geo_id |-> PyNone, country |-> PyNone, keywords |-> PyNone,
     url |-> "", status |-> 0, jobs |-> <<>>, raised |-> "", cause |-> ""]

NewTask(geo_id, country, keywords) ==
    [NoTask EXCEPT !.pc = "created", !.geo_id = geo_id, !.country = country,
                   !.keywords = keywords]

NoPage ==
    [served |-> FALSE, cards |-> <<>>, logged |-> FALSE, found |-> 0, total |-> 0,
     filtered |-> 0]

NoProbe ==
    [fn |-> "", offers |-> <<>>, digests |-> <<>>,
     card |-> Card(NoTag, NoTag, NoTag, NoTag, NoTag), kept |-> FALSE]

Running == mainPc \in {"gather", "direct"}

AllStrExceptKeywords(geo_id, country, keywords) == IsStr(geo_id) /\ IsStr(country)

\* all(isinstance(x, str) for x in (geo_id, country, keywords))
AllStr(geo_id, country, keywords) ==
    IsStr(geo_id) /\ IsStr(country) /\ IsStr(keywords)

StatusOk2xx(status) == status \in 200..299

\* response.status != 200 raises ScrapingError
StatusOk(status) == status = 200

Url(geo_id, keywords) ==
    HOST \o "/?keywords=" \o _format_keywords(Format(keywords)) \o "&geoId="
         \o Format(geo_id)

\* fetch_jobs up to its first await: the type check, the URL, session.get
FetchStart(i) ==
    /\ Running
    /\ task[i].pc = "created"
    /\ IF ~AllStr(task[i].geo_id, task[i].country, task[i].keywords)
       THEN /\ task' = [task EXCEPT ![i].pc = "raised", ![i].raised = "TypeError"]
            /\ UNCHANGED network
       ELSE /\ task' = [task EXCEPT ![i].pc = "requesting",
                                    ![i].url = Url(task[i].geo_id, task[i].keywords)]
            /\ network' = network \cup
                   {[by |-> i, url |-> Url(task[i].geo_id, task[i].keywords)]}
    /\ UNCHANGED <<mainPc, LOCATIONS, results, repo, idx, total_new_jobs, calls,
                   all_jobs, page, probe>>

\* the response arrives: a status other than 200 raises ScrapingError with
\* the URL, otherwise the body is awaited
FetchStatus(i, status) ==
    /\ Running
    /\ task[i].pc = "requesting"
    /\ IF ~StatusOk(status)
       THEN task' = [task EXCEPT ![i].pc = "raised", ![i].status = status,
                                 ![i].raised = "ScrapingError"]
       ELSE task' = [task EXCEPT ![i].pc = "reading", ![i].status = status]
    /\ UNCHANGED <<mainPc, LOCATIONS, network, results, repo, idx, total_new_jobs,
                   calls, all_jobs, page, probe>>

\* the 30 s ClientTimeout ends either await with a timeout error
FetchTimeout(i) ==
    /\ Running
    /\ task[i].pc \in {"requesting", "reading"}
    /\ task' = [task EXCEPT ![i].pc = "raised", ![i].raised = "TimeoutError"]
    /\ UNCHANGED <<mainPc, LOCATIONS, network, results, repo, idx, total_new_jobs,
                   calls, all_jobs, page, probe>>

\* the body arrives: the cards are found, filtered and parsed, the counts
\* are logged, and the call returns jobs or raises ParsingError.  A call
\* made directly keeps the body served and the counts logged in page.
FetchBody(i) ==
    /\ Running
    /\ task[i].pc = "reading"
    /\ \E cards \in Bodies :
           LET r == Processed[cards] IN
           /\ task' = [task EXCEPT
                          ![i].pc = IF r.raised = "" THEN "returned" ELSE "raised",
                          ![i].jobs = r.jobs,
                          ![i].raised = r.raised,
                          ![i].cause = r.cause]
           /\ page' = IF mainPc = "direct"
                      THEN IF r.raised = ""
                           THEN [served |-> TRUE, cards |-> cards, logged |-> TRUE,
                                 found |-> Len(r.jobs), total |-> Len(cards),
                                 filtered |-> r.filtered]
                           ELSE [NoPage EXCEPT !.served = TRUE, !.cards = cards]
                      ELSE page
    /\ UNCHANGED <<mainPc, LOCATIONS, network, results, repo, idx, total_new_jobs,
                   calls, all_jobs, probe>>

-----------------------------------------------------------------------------
(* main *)

Locs == 1..NumLocations

\* the loop over LOCATIONS.items(): one fetch_jobs coroutine per location,
\* none of them running before asyncio.gather is awaited
MainLaunch ==
    /\ mainPc = "start"
    /\ task' = [i \in Locs |->
                   NewTask(LOCATIONS[i].geo_id, LOCATIONS[i].location, PyStr(Keywords))]
    /\ mainPc' = "gather"
    /\ UNCHANGED <<LOCATIONS, network, results, repo, idx, total_new_jobs, calls,
                   all_jobs, page, probe>>

\* gather re-raises the first exception of a fetch in main: the session is
\* closed, main ends with the exception and asyncio.run cancels the fetches
\* still pending
MainAbortSkipFailed ==
    /\ mainPc = "gather"
    /\ \E i \in Locs : task[i].pc = "raised"
    /\ \A i \in Locs : task[i].pc \in {"returned", "raised"}
    /\ results' = [i \in Locs |-> task[i].jobs]
    /\ total_new_jobs' = 0
    /\ idx' = 0
    /\ mainPc' = "adding"
    /\ UNCHANGED <<LOCATIONS, task, network, repo, calls, all_jobs, page, probe>>

MainAbort ==
    /\ mainPc = "gather"
    /\ \E i \in Locs : task[i].pc = "raised"
    /\ mainPc' = "aborted"
    /\ task' = [i \in Locs |->
                   IF task[i].pc \in {"returned", "raised"} THEN task[i]
                   ELSE [task[i] EXCEPT !.pc = "cancelled"]]
    /\ UNCHANGED <<LOCATIONS, network, results, repo, idx, total_new_jobs, calls,
                   all_jobs, page, probe>>

MainJoinFirst ==
    /\ mainPc = "gather"
    /\ \E i \in Locs : task[i].pc = "returned"
    /\ \A i \in Locs : task[i].pc # "raised"
    /\ results' = [i \in Locs |-> task[i].jobs]
    /\ total_new_jobs' = 0
    /\ idx' = 0
    /\ mainPc' = "adding"
    /\ UNCHANGED <<LOCATIONS, task, network, repo, calls, all_jobs, page, probe>>

\* gather returns once every fetch has returned: results holds the lists in
\* the order of the locations
MainJoin ==
    /\ mainPc = "gather"
    /\ \A i \in Locs : task[i].pc = "returned"
    /\ results' = [i \in Locs |-> task[i].jobs]
    /\ total_new_jobs' = 0
    /\ idx' = 0
    /\ mainPc' = "adding"
    /\ UNCHANGED <<LOCATIONS, task, network, repo, calls, all_jobs, page, probe>>

AccumulateLast(total, new_jobs) == new_jobs

\* total_new_jobs += new_jobs
Accumulate(total, new_jobs) == total + new_jobs

\* one turn of the loop over results (fetch_jobs returns a list, never None)
MainAddJobs ==
    /\ mainPc = "adding"
    /\ idx < NumLocations
    /\ LET ret == add_jobs(repo, results[idx + 1], 0) IN
       /\ repo' = ret.store
       /\ total_new_jobs' = Accumulate(total_new_jobs, ret.new_count)
       /\ calls' = Append(calls, Call(idx + 1, results[idx + 1], ret))
    /\ idx' = idx + 1
    /\ UNCHANGED <<mainPc, LOCATIONS, task, network, results, all_jobs, page, probe>>

\* after the loop: the session is closed, get_all_jobs is read and exported
MainExport ==
    /\ mainPc = "adding"
    /\ idx = NumLocations
    /\ all_jobs' = get_all_jobs(repo)
    /\ mainPc' = "done"
    /\ UNCHANGED <<LOCATIONS, task, network, results, repo, idx, total_new_jobs,
                   calls, page, probe>>

\* the configured locations: display name -> geo id, where an entry may
\* carry a geo id that is not text
Configs ==
    [Locs -> [location : {PyStr(Countries[k]) : k \in 1..Len(Countries)},
              geo_id : {PyStr(GeoIds[k]) : k \in 1..Len(GeoIds)}
                       \cup {PyInt(GeoIds[k]) : k \in 1..Len(GeoIds)}]]

Init ==
    /\ mainPc = "start"
    /\ LOCATIONS \in {c \in Configs :
           \A i \in Locs : /\ c[i].location = PyStr(Countries[i])
                           /\ c[i].geo_id.val = GeoIds[i]}
    /\ task = [i \in Locs |-> NoTask]
    /\ network = {}
    /\ results = <<>>
    /\ repo = EmptyRepo
    /\ idx = 0
    /\ total_new_jobs = 0
    /\ calls = <<>>
    /\ all_jobs = {}
    /\ page = NoPage
    /\ probe = NoProbe

Next ==
    \/ MainLaunch
    \/ \E i \in Locs : FetchStart(i)
    \/ \E i \in Locs, status \in Statuses : FetchStatus(i, status)
    \/ \E i \in Locs : FetchTimeout(i)
    \/ \E i \in Locs : FetchBody(i)
    \/ MainAbort
    \/ MainJoin
    \/ MainAddJobs
    \/ MainExport

Spec == Init /\ [][Next]_vars

-----------------------------------------------------------------------------
(* fetch_jobs called directly, once, with any arguments *)

ArgGeoIds == {PyStr("100364837"), PyStr(""), PyInt("100364837")}

ArgCountries == {PyStr("Portugal"), PyStr(""), PyNone}

ArgKeywords == {PyStr(Keywords), PyStr(""), PyNone}

InitFetch ==
    /\ mainPc = "direct"
    /\ LOCATIONS = <<>>
    /\ task \in {[i \in {1} |-> NewTask(g, c, k)] :
                    g \in ArgGeoIds, c \in ArgCountries, k \in ArgKeywords}
    /\ network = {}
    /\ results = <<>>
    /\ repo = EmptyRepo
    /\ idx = 0
    /\ total_new_jobs = 0
    /\ calls = <<>>
    /\ all_jobs = {}
    /\ page = NoPage
    /\ probe = NoProbe

NextFetch ==
    \/ FetchStart(1)
    \/ \E status \in Statuses : FetchStatus(1, status)
    \/ FetchTimeout(1)
    \/ FetchBody(1)

SpecFetch == InitFetch /\ [][NextFetch]_vars

-----------------------------------------------------------------------------
(* add_jobs called directly on a repository, with any lists of records *)

offer1 ==
    JobOffer(PyStr("Software Engineer Intern"), PyStr("Acme"), PyStr("Lisbon"),
             PyStr("2026-01-10"), PyStr("https://host/jobs/view/1"), PyNone)

\* the company, title and location of offer1 under another URL and date
offer2 ==
    JobOffer(PyStr("Software Engineer Intern"), PyStr("Acme"), PyStr("Lisbon"),
             PyNone, PyStr("https://host/jobs/view/2"), PyNone)

offer3 ==
    JobOffer(PyNone, PyStr("Acme"), PyNone, PyNone, PyNone, PyNone)

Offers == {offer1, offer2, offer3}

InitRepo ==
    /\ mainPc = "repository"
    /\ LOCATIONS = <<>>
    /\ task = <<>>
    /\ network = {}
    /\ results = <<>>
    /\ repo = EmptyRepo
    /\ idx = 0
    /\ total_new_jobs = 0
    /\ calls = <<>>
    /\ all_jobs = {}
    /\ page = NoPage
    /\ probe = NoProbe

RepoAddJobs ==
    /\ mainPc = "repository"
    /\ Len(calls) < MaxCalls
    /\ \E jobs \in SeqUpTo(Offers, MaxBatch) :
           LET ret == add_jobs(repo, jobs, 0) IN
           /\ repo' = ret.store
           /\ calls' = Append(calls, Call(0, jobs, ret))
    /\ UNCHANGED <<mainPc, LOCATIONS, task, network, results, idx, total_new_jobs,
                   all_jobs, page, probe>>

RepoGetAllJobs ==
    /\ mainPc = "repository"
    /\ all_jobs' = get_all_jobs(repo)
    /\ UNCHANGED <<mainPc, LOCATIONS, task, network, results, repo, idx,
                   total_new_jobs, calls, page, probe>>

NextRepo ==
    \/ RepoAddJobs
    \/ RepoGetAllJobs

SpecRepo == InitRepo /\ [][NextRepo]_vars

-----------------------------------------------------------------------------
(* get_hash and _filter_cards applied to any record and any card *)

OptText(S) == {PyNone} \cup {PyStr(t) : t \in S}

\* records with every field present or absent
ProbeOffers ==
    {JobOffer(title, company_name, location, posted_date, url, description) :
        title \in OptText({"Intern"}),
        company_name \in OptText({"Acme", "None"}),
        location \in OptText({"Lisbon"}),
        posted_date \in OptText({"2026-01-10"}),
        url \in OptText({"https://host/jobs/view/1", "https://host/jobs/view/2"}),
        description \in OptText({"text"})}

ProbeTitles ==
    {"Software Engineer Intern", "Marketing Intern",
     "Backend Engineer Intern (Content Team)", "Software Engineer",
     "DevOps Apprentice", "Internal Platform Tools", "Cloud Engineering Internship",
     "\n  SOFTWARE DEVELOPER INTERN  \n", "Chrome Engineer Intern", "Intern", "",
     "Site Reliability Apprentice", "Product Manager Intern, Platform",
     "Sales Engineer Internship", "Software  Engineer Apprenticeship",
     "Platform engineer intern"}

ProbeCards ==
    {Card(h3, h4, NoTag, NoTag, NoTag) :
        h3 \in {NoTag} \cup {Tag(t) : t \in ProbeTitles},
        h4 \in {NoTag, Tag("Acme")}}

InitPure ==
    /\ mainPc = "pure"
    /\ LOCATIONS = <<>>
    /\ task = <<>>
    /\ network = {}
    /\ results = <<>>
    /\ repo = EmptyRepo
    /\ idx = 0
    /\ total_new_jobs = 0
    /\ calls = <<>>
    /\ all_jobs = {}
    /\ page = NoPage
    /\ probe = NoProbe

\* one application per run: get_hash of two records
ProbeHash ==
    /\ mainPc = "pure"
    /\ probe.fn = ""
    /\ \E r1 \in ProbeOffers, r2 \in ProbeOffers :
           probe' = [NoProbe EXCEPT !.fn = "get_hash", !.offers = <<r1, r2>>,
                                    !.digests = <<get_hash(r1), get_hash(r2)>>]
    /\ UNCHANGED <<mainPc, LOCATIONS, task, network, results, repo, idx,
                   total_new_jobs, calls, all_jobs, page>>

\* one application per run: _filter_cards of a card
ProbeFilter ==
    /\ mainPc = "pure"
    /\ probe.fn = ""
    /\ \E card \in ProbeCards :
           probe' = [NoProbe EXCEPT !.fn = "_filter_cards", !.card = card,
                                    !.kept = _filter_cards(card)]
    /\ UNCHANGED <<mainPc, LOCATIONS, task, network, results, repo, idx,
                   total_new_jobs, calls, all_jobs, page>>

NextPure ==
    \/ ProbeHash
    \/ ProbeFilter

SpecPure == InitPure /\ [][NextPure]_vars

-----------------------------------------------------------------------------
(* Properties *)

\* the positions of the body served to a direct fetch_jobs call
Served == IF page.served THEN 1..Len(page.cards) ELSE {}

Untitled == {k \in Served : ~page.cards[k].h3.found}

\* the cards that have a title and pass the filter
Accepted == {k \in Served : page.cards[k].h3.found /\ _filter_cards(page.cards[k])}

\* the accepted cards without a company-name or a location marker
Broken == {k \in Accepted : ~page.cards[k].h4.found \/ ~page.cards[k].span.found}

\* C1 as stated: a response with a card that lacks its title marker makes
\* fetch_jobs fail with ParsingError.
C1_UntitledCardFailsFetch ==
    Untitled # {} => task[1].raised = "ParsingError"

\* C1, amended: a card that lacks its title marker is rejected by the filter,
\* counted as filtered and skipped; with such a card in the response the call
\* raises ParsingError exactly when an accepted card lacks its company-name or
\* location marker, and otherwise returns one Record per accepted card.
C1_UntitledCardIsFiltered ==
    Untitled # {} =>
        /\ (task[1].raised = "ParsingError") <=> (Broken # {})
        /\ Broken = {} =>
              /\ task[1].pc = "returned"
              /\ Len(task[1].jobs) = Cardinality(Accepted)
              /\ page.logged
              /\ page.filtered >= Cardinality(Untitled)
              /\ page.filtered = page.total - page.found

C1_Witness ==
    /\ Untitled # {}
    /\ Accepted # {}
    /\ task[1].pc = "returned"
    /\ Len(task[1].jobs) = 1
    /\ page.filtered = 1

\* C2 as stated: fetch_jobs raises ScrapingError exactly when the response
\* status is outside 200..299.
C2_ScrapingErrorIffNot2xx ==
    (task[1].raised = "ScrapingError")
        <=> (task[1].status # 0 /\ task[1].status \notin 200..299)

\* C2, amended: fetch_jobs raises ScrapingError (and returns no Records)
\* exactly when the response status is not 200; only for status 200 does the
\* call go on to decode the body and process the cards.
C2_ScrapingErrorIffNot200 ==
    /\ (task[1].raised = "ScrapingError")
           <=> (task[1].status # 0 /\ task[1].status # 200)
    /\ task[1].raised = "ScrapingError" =>
           /\ task[1].pc = "raised"
           /\ task[1].jobs = <<>>
           /\ ~page.served
    /\ page.served => task[1].status = 200
    /\ task[1].pc = "reading" => task[1].status = 200

C2_Witness ==
    /\ task[1].status = 204
    /\ task[1].raised = "ScrapingError"

NonEmptyText(x) == IsStr(x) /\ x.val # ""

\* C3 as stated: a call with a geo_id, country or keywords that is not a
\* non-empty text value raises the type error and sends no request.
C3_EmptyOrNonTextRejected ==
    (/\ task[1].pc # "created"
     /\ \E x \in {task[1].geo_id, task[1].country, task[1].keywords} :
            ~NonEmptyText(x))
        => (task[1].raised = "TypeError" /\ network = {})

\* C3, amended: a call with a geo_id, country or keywords that is not a text
\* value raises TypeError and sends no request; an empty string is a text
\* value and passes the check, so the request is sent.
C3_NonTextRejected ==
    task[1].pc # "created" =>
        IF \E x \in {task[1].geo_id, task[1].country, task[1].keywords} : ~IsStr(x)
        THEN task[1].raised = "TypeError" /\ network = {}
        ELSE /\ task[1].raised # "TypeError"
             /\ network = {[by |-> 1, url |-> task[1].url]}

C3_Witness ==
    /\ ~IsStr(task[1].keywords)
    /\ IsStr(task[1].geo_id)
    /\ IsStr(task[1].country)
    /\ task[1].raised = "TypeError"
    /\ network = {}

position_terms == {"intern", "apprentice", "internship"}

included_terms ==
    {"backend", "cloud", "devops", "engineering", "platform", "site reliability",
     "software", "developer", "engineer"}

excluded_terms ==
    {"marketing", "sales", "business", "finance", "accounting", "hr",
     "human resources", "recruiter", "customer", "support", "service", "content",
     "design", "product manager", "project manager", "operations"}

HasAny(text, terms) == \E t \in terms : Contains(text, t)

C5_FailedRunStoresNothing ==
    (mainPc # "start" /\ \E i \in Locs : task[i].pc = "raised") =>
        /\ calls = <<>>
        /\ repo = EmptyRepo
        /\ all_jobs = {}
        /\ mainPc \in {"gather", "aborted"}

C5_Witness ==
    /\ mainPc = "aborted"
    /\ \E i \in Locs : task[i].pc = "raised"
    /\ \E i \in Locs : task[i].pc = "returned" /\ task[i].jobs # <<>>

RECURSIVE SumNewCounts(_)
SumNewCounts(cs) ==
    IF cs = <<>> THEN 0 ELSE Head(cs).new_count + SumNewCounts(Tail(cs))

\* the identity hashes of the Records the fetches returned
FetchedHashes ==
    UNION {{get_hash(task[i].jobs[k]) : k \in 1..Len(task[i].jobs)} : i \in Locs}

\* C6: at the end of a run of main in which every fetch succeeded, the hashes
\* stored are exactly the hashes of the Records the fetches returned, and
\* total_new_jobs, the sum of the new_count values, is the number of entries.
C6_RepositoryIsUnion ==
    mainPc = "done" =>
        /\ DOMAIN repo = FetchedHashes
        /\ total_new_jobs = SumNewCounts(calls)
        /\ total_new_jobs = Cardinality(DOMAIN repo)
        /\ Cardinality(all_jobs) = total_new_jobs

C6_Witness ==
    /\ mainPc = "done"
    /\ Len(task[1].jobs) = 2
    /\ Len(task[2].jobs) = 1
    /\ get_hash(task[2].jobs[1]) = get_hash(task[1].jobs[1])
    /\ Cardinality(DOMAIN repo) = 2
    /\ total_new_jobs = 2

SameTriple(r1, r2) ==
    /\ r1.company_name = r2.company_name
    /\ r1.title = r2.title
    /\ r1.location = r2.location

\* C8: two records with equal company_name, title and location, each present
\* or absent, have the same hash whatever their url, posted_date, description.
C8_HashOfTriple ==
    (probe.fn = "get_hash" /\ SameTriple(probe.offers[1], probe.offers[2]))
        => probe.digests[1] = probe.digests[2]

C8_Witness ==
    /\ probe.fn = "get_hash"
    /\ SameTriple(probe.offers[1], probe.offers[2])
    /\ probe.offers[1].title = PyNone
    /\ probe.offers[1].url # probe.offers[2].url
    /\ probe.offers[1].posted_date # probe.offers[2].posted_date
    /\ probe.digests[1] = probe.digests[2]

\* C9: in a run of main no add_jobs call is made before every fetch has
\* returned, and the calls are made one after the other, one per location
\* and in the order of the locations, each on the store the previous call left.
C9_AddAfterJoinInOrder ==
    mainPc \in {"start", "gather", "adding", "done", "aborted"} =>
        /\ calls # <<>> => \A i \in Locs : task[i].pc = "returned"
        /\ Len(calls) = idx
        /\ Len(calls) <= NumLocations
        /\ \A k \in 1..Len(calls) :
              /\ calls[k].at = k
              /\ calls[k].arg = task[k].jobs
              /\ calls[k].stored =
                     add_jobs(IF k = 1 THEN EmptyRepo ELSE calls[k - 1].stored,
                              task[k].jobs, 0).store
        /\ calls # <<>> => repo = calls[Len(calls)].stored

C9_Witness ==
    /\ mainPc = "done"
    /\ Len(calls) = NumLocations
    /\ calls[1].arg # calls[2].arg
    /\ calls[1].arg # <<>>
    /\ calls[2].arg # <<>>

\* C10: when a card accepted by the filter fails in the parser, fetch_jobs
\* raises ParsingError from the cause and returns no Records, also when
\* earlier cards of the response were parsed.
C10_ParserFailureFailsFetch ==
    Broken # {} =>
        /\ task[1].pc = "raised"
        /\ task[1].raised = "ParsingError"
        /\ task[1].cause = "AttributeError"
        /\ task[1].jobs = <<>>
        /\ ~page.logged

C10_Witness ==
    /\ page.served
    /\ page.cards = <<cardA, cardNoCompany>>
    /\ task[1].raised = "ParsingError"

====
